---- MODULE Spec2Model ----
(***************************************************************************)
(* finance_ibex: IbexCompany (src/ibex_company.rs), Ibex35Market           *)
(* (src/ibex35_market.rs) and the descriptor loader load_ibex35_companies  *)
(* (src/lib.rs).                                                           *)
(*                                                                         *)
(* Short names, full names and name queries are sequences of Unicode code  *)
(* points, so that to_ascii_lowercase and str::contains are computed as    *)
(* the code computes them.  Tickers, ISINs and NIFs are only stored,       *)
(* compared for equality and used as HashMap keys: they are TLA+ strings.  *)
(***************************************************************************)
EXTENDS Integers, Sequences, FiniteSets, TLC

VARIABLES
    pc,           \* position of the caller: see Init and the actions
    companies,    \* the caller's HashMap<String, Box<dyn Company>> (tests fixture)
    toml_parsed,  \* load_ibex35_companies: the text read from the path, if any
    table,        \* load_ibex35_companies: the parsed toml::Table, if any
    idx,          \* load_ibex35_companies: number of sections the loop has completed
    map,          \* load_ibex35_companies: the working HashMap
    ret,          \* load_ibex35_companies: the value returned to the caller, if any
    market,       \* the Box<dyn Market> the caller holds, if any
    result,       \* the value returned by the last query or accessor
    args,         \* IbexCompany::new: the arguments of the construction
    company       \* IbexCompany::new: the constructed IbexCompany, if any

vars == <<pc, companies, toml_parsed, table, idx, map, ret, market, result, args, company>>

----------------------------------------------------------------------------
(* Bounds *)

\* longest name query given to stock_by_name
MaxQueryLen == 2

\* longest short name of a company
MaxNameLen == 2

\* largest number of sections of a descriptor
MaxSections == 2

----------------------------------------------------------------------------
(* Option<T>, strings *)

None == <<>>

Some(x) == <<x>>

\* the characters of name queries: 'C', 'c', U+00C9 (E acute), U+00E9 (e acute)
Alphabet == {67, 99, 201, 233}

\* the characters of company names: 'C', U+00E9 (e acute)
NameAlphabet == {67, 233}

Strings(chars, n) == UNION {[1..k -> chars] : k \in 0..n}

Queries == Strings(Alphabet, MaxQueryLen)

ShortNames == Strings(NameAlphabet, MaxNameLen)

\* u8/char::to_ascii_lowercase: only 'A'..='Z' are changed
AsciiLowerChar(c) == IF c \in 65..90 THEN c + 32 ELSE c

\* str::to_ascii_lowercase
to_ascii_lowercase(s) == [i \in 1..Len(s) |-> AsciiLowerChar(s[i])]

\* str::contains(&str)
contains(s, pat) ==
    \E i \in 0..(Len(s) - Len(pat)) : SubSeq(s, i + 1, i + Len(pat)) = pat

----------------------------------------------------------------------------
(* src/ibex_company.rs *)

\* the ticker and the ISIN stored in each other's field
IbexCompany_new_swapped(fname, sname, tk, isn, nif) ==
    [ full_name  |-> IF fname = None THEN None ELSE Some(fname[1]),
      short_name |-> sname,
      ticker     |-> isn,
      isin       |-> tk,
      nif        |-> IF nif = None THEN None ELSE Some(nif[1]) ]

IbexCompany_new(fname, sname, tk, isn, nif) ==
    [ full_name  |-> IF fname = None THEN None ELSE Some(fname[1]),
      short_name |-> sname,
      ticker     |-> tk,
      isin       |-> isn,
      nif        |-> IF nif = None THEN None ELSE Some(nif[1]) ]

name(c) == c.short_name

full_name(c) == c.full_name

isin(c) == c.isin

ticker(c) == c.ticker

extra_id(c) == c.nif

----------------------------------------------------------------------------
(* std::collections::HashMap as used by the code *)

EmptyMap == [k \in {} |-> None]

\* the value already stored under the key is kept (entry(k).or_insert(v))
HashMapInsert_keep(m, k, v) ==
    [x \in (DOMAIN m) \cup {k} |-> IF x \in DOMAIN m THEN m[x] ELSE v]

\* HashMap::insert: a value stored under an existing key is replaced
HashMapInsert(m, k, v) == [x \in (DOMAIN m) \cup {k} |-> IF x = k THEN v ELSE m[x]]

\* the orders in which HashMap::keys() / values() may visit the entries
IterOrders(m) ==
    {o \in [1..Cardinality(DOMAIN m) -> DOMAIN m] :
        \A i, j \in DOMAIN o : i # j => o[i] # o[j]}

----------------------------------------------------------------------------
(* src/ibex35_market.rs *)

Ibex35Market_new(company_map) ==
    [ name        |-> "BME Ibex35 Index",
      open_time   |-> "08:00:00",
      close_time  |-> "16:30:00",
      currency    |-> "euro",
      company_map |-> company_map ]

market_name(self) == self.name

open_time(self) == self.open_time

close_time(self) == self.close_time

currency(self) == self.currency

\* the ticker of each stored company pushed instead of its key
list_tickers_of_values(self, ord) == [i \in 1..Len(ord) |-> self.company_map[ord[i]].ticker]

\* keys().for_each(|c| tickers.push(c)), the keys visited in order ord
list_tickers(self, ord) == [i \in 1..Len(ord) |-> ord[i]]

\* values().collect(), the entries visited in order ord
get_companies(self, ord) == [i \in 1..Len(ord) |-> self.company_map[ord[i]]]

\* the query compared as given, only the stock's name lowered
NameMatches_raw_query(stock, nm) == contains(to_ascii_lowercase(name(stock)), nm)

NameMatches(stock, nm) ==
    contains(to_ascii_lowercase(name(stock)), to_ascii_lowercase(nm))

stock_by_name(self, nm, ord) ==
    LET Hit(stock) == NameMatches(stock, nm)
        stocks == SelectSeq(get_companies(self, ord), Hit)
    IN  IF Len(stocks) > 0 THEN Some(stocks) ELSE None

stock_by_ticker(self, tk) ==
    IF tk \in DOMAIN self.company_map THEN Some(self.company_map[tk]) ELSE None

----------------------------------------------------------------------------
(* The descriptor: toml::Table and toml::Value as used by src/lib.rs *)

Str(x) == <<"str", x>>

IntValue == <<"int">>

Absent == <<"absent">>

\* Value::as_str: Some for a string value, None for any other value
as_str(v) == IF v[1] = "str" THEN Some(v[2]) ELSE None

\* table.keys() visits the sections by ascending key
SectionKeys == <<"AENA", "AMS", "CLNX", "SAN">>

Tickers == {"AENA", "AMS"}

TickerQueries == {"AENA", "AMS", "CLNX", "SAN"}

Isins == {"ES0105046009", "NL0015001FS8"}

Nifs == {"A86212420"}

\* "Cé", "é"
FullNames == {<<67, 233>>, <<233>>}

\* the keys of one section; a key whose value is Absent is not in the section
MkSection(fn, nm, tk, isn, ex) ==
    LET all == [full_name |-> fn, name |-> nm, ticker |-> tk, isin |-> isn, extra_id |-> ex]
    IN  [k \in {x \in DOMAIN all : all[x] # Absent} |-> all[k]]

\* the sections of the descriptors: each key that the loader reads is a
\* string or missing, and full_name may also hold a value that is no string
SectionBodies ==
    {MkSection(fn, Str(<<67>>), tk, isn, ex) :
        fn  \in {Absent, IntValue} \cup {Str(f) : f \in FullNames},
        tk  \in {Absent} \cup {Str(t) : t \in Tickers},
        isn \in {Absent, Str("ES0105046009")},
        ex  \in {Absent} \cup {Str(n) : n \in Nifs}}

\* the table of sections b[1], ..., b[n], under the keys in ascending order
MkTable(b) == [i \in 1..Len(b) |-> [key |-> SectionKeys[i], fields |-> b[i]]]

MalformedText == [kind |-> "malformed", table |-> <<>>]

TomlText(t) == [kind |-> "toml", table |-> t]

----------------------------------------------------------------------------
(* src/lib.rs: load_ibex35_companies *)

NotReturned == [tag |-> "none", val |-> ""]

Err(msg) == [tag |-> "Err", val |-> msg]

Ok(m) == [tag |-> "Ok", val |-> m]

ErrOpen == Err("Error opening the input file")

ErrParse == Err("Could not parse the file as a TOML table")

\* table[key][k].as_str().unwrap(): the value as Some(x), or None for a panic
\* (Value's Index panics on a missing key, unwrap panics on a non-string)
Extract(section, k) ==
    IF k \notin DOMAIN section.fields THEN None ELSE as_str(section.fields[k])

ExtractFname(section) == Extract(section, "full_name")

\* the short name read from the key name
ExtractSname_name(section) == Extract(section, "name")

ExtractSname(section) == Extract(section, "full_name")

ExtractTicker(section) == Extract(section, "ticker")

ExtractIsin(section) == Extract(section, "isin")

ExtractNif(section) == Extract(section, "extra_id")

Panics(section) ==
    \/ ExtractFname(section) = None
    \/ ExtractSname(section) = None
    \/ ExtractTicker(section) = None
    \/ ExtractIsin(section) = None
    \/ ExtractNif(section) = None

\* IbexCompany::new(Some(fname), sname, ticker, isin, Some(nif))
SectionCompany(section) ==
    IbexCompany_new(Some(ExtractFname(section)[1]), ExtractSname(section)[1],
                    ExtractTicker(section)[1], ExtractIsin(section)[1],
                    Some(ExtractNif(section)[1]))

\* the company stored under the key of its section instead of its ticker
InsertCompany_section_key(m, section, c) == HashMapInsert(m, section.key, c)

\* map.insert(String::from(ticker), Box::new(company))
InsertCompany(m, section, c) == HashMapInsert(m, ticker(c), c)

NoResult == [op |-> "none", arg |-> "", val |-> ""]

LoaderIdle ==
    /\ toml_parsed = None
    /\ table = None
    /\ idx = 0
    /\ map = EmptyMap
    /\ ret = NotReturned

NoCompanyArgs == <<>>

Init ==
    /\ pc = "start"
    /\ companies = EmptyMap
    /\ LoaderIdle
    /\ market = None
    /\ result = NoResult
    /\ args = NoCompanyArgs
    /\ company = None

\* read_to_string(path) fails: return Err("Error opening the input file")
LoadReadErr ==
    /\ pc = "start"
    /\ ret' = ErrOpen
    /\ pc' = "failed"
    /\ UNCHANGED <<companies, toml_parsed, table, idx, map, market, result, args, company>>

\* read_to_string(path) succeeds with some text
LoadReadOk ==
    /\ pc = "start"
    /\ \/ toml_parsed' = Some(MalformedText)
       \/ \E n \in 0..MaxSections : \E b \in [1..n -> SectionBodies] :
             toml_parsed' = Some(TomlText(MkTable(b)))
    /\ pc' = "read"
    /\ UNCHANGED <<companies, table, idx, map, ret, market, result, args, company>>

\* a text that does not parse is taken for an empty table (unwrap_or_default)
LoadParseErr_default ==
    /\ pc = "read"
    /\ toml_parsed[1].kind = "malformed"
    /\ table' = Some(<<>>)
    /\ map' = EmptyMap
    /\ pc' = "loop"
    /\ UNCHANGED <<companies, toml_parsed, idx, ret, market, result, args, company>>

\* toml_parsed.parse::<Table>() fails
LoadParseErr ==
    /\ pc = "read"
    /\ toml_parsed[1].kind = "malformed"
    /\ ret' = ErrParse
    /\ pc' = "failed"
    /\ UNCHANGED <<companies, toml_parsed, table, idx, map, market, result, args, company>>

\* toml_parsed.parse::<Table>() succeeds; let mut map = HashMap::new()
LoadParseOk ==
    /\ pc = "read"
    /\ toml_parsed[1].kind = "toml"
    /\ table' = Some(toml_parsed[1].table)
    /\ map' = EmptyMap
    /\ pc' = "loop"
    /\ UNCHANGED <<companies, toml_parsed, idx, ret, market, result, args, company>>

\* one iteration of for key in table.keys(): an unwrap or an index panics
LoadSectionPanic ==
    /\ pc = "loop"
    /\ idx < Len(table[1])
    /\ Panics(table[1][idx + 1])
    /\ pc' = "panicked"
    /\ UNCHANGED <<companies, toml_parsed, table, idx, map, ret, market, result, args, company>>

\* one iteration of for key in table.keys(): the company is inserted
LoadSection ==
    /\ pc = "loop"
    /\ idx < Len(table[1])
    /\ ~Panics(table[1][idx + 1])
    /\ map' = InsertCompany(map, table[1][idx + 1], SectionCompany(table[1][idx + 1]))
    /\ idx' = idx + 1
    /\ UNCHANGED <<pc, companies, toml_parsed, table, ret, market, result, args, company>>

\* Ok(Ibex35Market::new(map))
LoadReturn ==
    /\ pc = "loop"
    /\ idx = Len(table[1])
    /\ ret' = Ok(Ibex35Market_new(map))
    /\ market' = Some(Ibex35Market_new(map))
    /\ pc' = "loaded"
    /\ UNCHANGED <<companies, toml_parsed, table, idx, map, result, args, company>>

----------------------------------------------------------------------------
(* A caller that fills a HashMap itself (tests::ibex35_companies) *)

FixtureInsert ==
    /\ pc \in {"start", "building"}
    /\ \E k \in Tickers, sname \in ShortNames, tk \in Tickers :
          companies' = HashMapInsert(companies, k,
                          IbexCompany_new(None, sname, tk, "ES0105046009", None))
    /\ pc' = "building"
    /\ UNCHANGED <<toml_parsed, table, idx, map, ret, market, result, args, company>>

MarketNew ==
    /\ pc \in {"start", "building"}
    /\ market' = Some(Ibex35Market_new(companies))
    /\ pc' = "built"
    /\ UNCHANGED <<companies, toml_parsed, table, idx, map, ret, result, args, company>>

----------------------------------------------------------------------------
(* The queries of a caller that holds a Market *)

\* the caller holds a Market and no result of an earlier query
HasMarket == pc \in {"loaded", "built"} /\ result.op = "none"

Answer(op, arg, val) == [op |-> op, arg |-> arg, val |-> val]

QueryFrame == UNCHANGED <<pc, companies, toml_parsed, table, idx, map, ret, market, args, company>>

MarketName ==
    /\ HasMarket
    /\ result' = Answer("market_name", "", market_name(market[1]))
    /\ QueryFrame

OpenTime ==
    /\ HasMarket
    /\ result' = Answer("open_time", "", open_time(market[1]))
    /\ QueryFrame

CloseTime ==
    /\ HasMarket
    /\ result' = Answer("close_time", "", close_time(market[1]))
    /\ QueryFrame

Currency ==
    /\ HasMarket
    /\ result' = Answer("currency", "", currency(market[1]))
    /\ QueryFrame

ListTickers ==
    /\ HasMarket
    /\ \E ord \in IterOrders(market[1].company_map) :
          result' = Answer("list_tickers", "", list_tickers(market[1], ord))
    /\ QueryFrame

\* the entries moved out of the registry (drain() for values())
GetCompanies_drain ==
    /\ pc \in {"loaded", "built"}
    /\ result.op = "none"
    /\ \E ord \in IterOrders(market[1].company_map) :
          result' = [op |-> "get_companies", arg |-> "", val |-> get_companies(market[1], ord)]
    /\ market' = Some([market[1] EXCEPT !.company_map = EmptyMap])
    /\ UNCHANGED <<pc, companies, toml_parsed, table, idx, map, ret, args, company>>

GetCompanies ==
    /\ HasMarket
    /\ \E ord \in IterOrders(market[1].company_map) :
          result' = Answer("get_companies", "", get_companies(market[1], ord))
    /\ QueryFrame

StockByName ==
    /\ HasMarket
    /\ \E q \in Queries, ord \in IterOrders(market[1].company_map) :
          result' = Answer("stock_by_name", q, stock_by_name(market[1], q, ord))
    /\ QueryFrame

StockByTicker ==
    /\ HasMarket
    /\ \E tk \in TickerQueries :
          result' = Answer("stock_by_ticker", tk, stock_by_ticker(market[1], tk))
    /\ QueryFrame

\* the caller lets go of the result of its last query
ReleaseResult ==
    /\ pc \in {"loaded", "built"}
    /\ result.op # "none"
    /\ result' = NoResult
    /\ QueryFrame

Next ==
    \/ LoadReadErr
    \/ LoadReadOk
    \/ LoadParseErr
    \/ LoadParseOk
    \/ LoadSectionPanic
    \/ LoadSection
    \/ LoadReturn
    \/ FixtureInsert
    \/ MarketNew
    \/ MarketName
    \/ OpenTime
    \/ CloseTime
    \/ Currency
    \/ ListTickers
    \/ GetCompanies
    \/ StockByName
    \/ StockByTicker
    \/ ReleaseResult

Spec == Init /\ [][Next]_vars

----------------------------------------------------------------------------
(* A caller that constructs one IbexCompany and reads it (ibex_company.rs tests) *)

CompanyArgs ==
    [ fname  : {None} \cup {Some(f) : f \in FullNames},
      sname  : ShortNames,
      ticker : Tickers,
      isin   : Isins,
      nif    : {None} \cup {Some(n) : n \in Nifs} ]

InitCompany ==
    /\ pc = "company"
    /\ companies = EmptyMap
    /\ LoaderIdle
    /\ market = None
    /\ result = NoResult
    /\ args \in CompanyArgs
    /\ company = None

CompanyFrame == UNCHANGED <<pc, companies, toml_parsed, table, idx, map, ret, market, args>>

CompanyNew ==
    /\ pc = "company"
    /\ company = None
    /\ company' = Some(IbexCompany_new(args.fname, args.sname, args.ticker, args.isin, args.nif))
    /\ UNCHANGED result
    /\ CompanyFrame

CompanyName ==
    /\ pc = "company"
    /\ company # None
    /\ result' = Answer("name", "", name(company[1]))
    /\ UNCHANGED company
    /\ CompanyFrame

CompanyFullName ==
    /\ pc = "company"
    /\ company # None
    /\ result' = Answer("full_name", "", full_name(company[1]))
    /\ UNCHANGED company
    /\ CompanyFrame

CompanyIsin ==
    /\ pc = "company"
    /\ company # None
    /\ result' = Answer("isin", "", isin(company[1]))
    /\ UNCHANGED company
    /\ CompanyFrame

CompanyTicker ==
    /\ pc = "company"
    /\ company # None
    /\ result' = Answer("ticker", "", ticker(company[1]))
    /\ UNCHANGED company
    /\ CompanyFrame

CompanyExtraId ==
    /\ pc = "company"
    /\ company # None
    /\ result' = Answer("extra_id", "", extra_id(company[1]))
    /\ UNCHANGED company
    /\ CompanyFrame

NextCompany ==
    \/ CompanyNew
    \/ CompanyName
    \/ CompanyFullName
    \/ CompanyIsin
    \/ CompanyTicker
    \/ CompanyExtraId

SpecCompany == InitCompany /\ [][NextCompany]_vars

----------------------------------------------------------------------------
(* Vocabulary of the properties *)

SeqToSet(sq) == {sq[i] : i \in DOMAIN sq}

NoDuplicates(sq) == \A i, j \in DOMAIN sq : i # j => sq[i] # sq[j]

\* the Companies a Market contains
Registered(m) == {m.company_map[k] : k \in DOMAIN m.company_map}

\* every key of the mapping is the ticker of the Company stored under it
KeyedByTicker(m) == \A k \in DOMAIN m.company_map : m.company_map[k].ticker = k

\* the Companies of an Option<Vec<&Box<dyn Company>>>, as a set
Found(val) == IF val = None THEN {} ELSE SeqToSet(val[1])

\* a and b are the same character, or the upper and lower case of one ASCII letter
SameAsciiLetter(a, b) ==
    \/ a = b
    \/ a \in 65..90 /\ b = a + 32
    \/ b \in 65..90 /\ a = b + 32

\* a and b are the same character, or the two cases of one letter (ASCII, or
\* Latin-1: U+00C0..U+00DE but U+00D7 are the capitals of U+00E0..U+00FE)
SameLetter(a, b) ==
    \/ SameAsciiLetter(a, b)
    \/ a \in (192..222) \ {215} /\ b = a + 32
    \/ b \in (192..222) \ {215} /\ a = b + 32

\* q occurs in s as a substring, up to the equivalence Same of characters
OccursIn(q, s, Same(_, _)) ==
    \E i \in 0..(Len(s) - Len(q)) : \A j \in 1..Len(q) : Same(s[i + j], q[j])

\* the answer of stock_by_ticker is the Company of that ticker, or not-found
\* when no Company has that ticker
ExactLookup(m) ==
    result.op = "stock_by_ticker" =>
        /\ \A c \in Registered(m) : c.ticker = result.arg => result.val = Some(c)
        /\ (\A c \in Registered(m) : c.ticker # result.arg) => result.val = None

\* C1 as stated: in every Market, whatever mapping it was built from,
\* stock_by_ticker(c.ticker()) returns c for every Company c it contains, and
\* stock_by_ticker reports not-found for every string that is no Company's ticker.
C1_LookupAnyMapping == market # None => ExactLookup(market[1])

\* C1 amended: the same, for every Market built by the loader and every Market
\* built by Ibex35Market::new from a mapping whose every key is the ticker of
\* the Company stored under it.
C1_LookupKeyedByTicker ==
    (market # None /\ (pc = "loaded" \/ KeyedByTicker(market[1]))) => ExactLookup(market[1])

\* a loaded Market of two Companies answered stock_by_ticker with one of them
C1_Witness ==
    /\ pc = "loaded"
    /\ Cardinality(DOMAIN market[1].company_map) = 2
    /\ result.op = "stock_by_ticker"
    /\ result.val # None

\* one of full_name, ticker, isin is missing from the section or is no string
LacksRequired(section) ==
    \E k \in {"full_name", "ticker", "isin"} :
        k \notin DOMAIN section.fields \/ section.fields[k][1] # "str"

LoadEnded == pc \in {"loaded", "failed", "panicked"}

\* C2 as stated: when a section of a readable, well-formed descriptor lacks
\* full_name, ticker or isin (or holds a non-string there), the load returns
\* an error value of its own kind (not the open or the parse error), and no Market.
C2_MissingFieldReported ==
    (LoadEnded /\ table # None /\ \E i \in 1..Len(table[1]) : LacksRequired(table[1][i]))
        => /\ ret.tag = "Err"
           /\ ret.val \notin {ErrOpen.val, ErrParse.val}
           /\ market = None

\* C3 as stated: a section with full_name, ticker and isin but no extra_id
\* does not make the load fail, and its Company reports absent for extra_id().
C3_ExtraIdOptional ==
    /\ pc = "panicked" => LacksRequired(table[1][idx + 1])
    /\ pc = "loaded" =>
          \A i \in 1..Len(table[1]) :
              ("extra_id" \notin DOMAIN table[1][i].fields
               /\ \A j \in (i + 1)..Len(table[1]) :
                     table[1][j].fields.ticker # table[1][i].fields.ticker)
              => extra_id(market[1].company_map[table[1][i].fields.ticker[2]]) = None

\* the answer of stock_by_name is the set of the Companies whose short name
\* contains the query up to Same, and not-found exactly when that set is empty
NameSearch(m, Same(_, _)) ==
    result.op = "stock_by_name" =>
        LET matching == {c \in Registered(m) : OccursIn(result.arg, c.short_name, Same)}
        IN  /\ Found(result.val) = matching
            /\ result.val = None <=> matching = {}
            /\ result.val # None => Len(result.val[1]) > 0

\* C4 as stated: stock_by_name(q) returns exactly the Companies whose short
\* name contains q when letter case is ignored in both, reports not-found
\* exactly when there is none, and never returns an empty sequence.
C4_SearchIgnoringCase == market # None => NameSearch(market[1], SameLetter)

\* C4 amended: the same, with only the case of the ASCII letters A-Z ignored;
\* any other character, such as an accented letter, matches only itself.
C4_SearchIgnoringAsciiCase == market # None => NameSearch(market[1], SameAsciiLetter)

\* a query holding a lower-case 'c' found two Companies
C4_Witness ==
    /\ result.op = "stock_by_name"
    /\ result.val # None
    /\ 99 \in SeqToSet(result.arg)
    /\ Cardinality(Found(result.val)) = 2

\* C5: list_tickers() has no duplicate entries and is as long as get_companies().
C5_TickersUnique ==
    result.op = "list_tickers" =>
        /\ NoDuplicates(result.val)
        /\ \A ord \in IterOrders(market[1].company_map) :
              Len(result.val) = Len(get_companies(market[1], ord))

\* list_tickers answered for a Market holding two Companies of the same ticker
C5_Witness ==
    /\ result.op = "list_tickers"
    /\ Len(result.val) = 2
    /\ Cardinality({c.ticker : c \in Registered(market[1])}) = 1

\* C6: the load reads, then parses, then extracts, and stops at the first
\* failing stage: after the open error nothing was parsed, after the parse
\* error no section was processed, the two errors differ, neither leaves a Market.
C6_Stages ==
    /\ ErrOpen.val # ErrParse.val
    /\ table # None => (toml_parsed # None /\ toml_parsed[1].kind = "toml")
    /\ (idx > 0 \/ DOMAIN map # {}) => table # None
    /\ pc = "failed" =>
          /\ ret.tag = "Err"
          /\ market = None
          /\ table = None
          /\ idx = 0
          /\ DOMAIN map = {}
          /\ toml_parsed = None => ret.val = ErrOpen.val
          /\ toml_parsed # None => (toml_parsed[1].kind = "malformed" /\ ret.val = ErrParse.val)
    /\ (toml_parsed # None /\ toml_parsed[1].kind = "malformed") => pc \in {"read", "failed"}
    /\ ret.tag = "Err" => pc = "failed"

\* the load of a readable text that is no TOML table has returned
C6_Witness ==
    /\ pc = "failed"
    /\ toml_parsed # None
    /\ ret.tag = "Err"
    /\ ret.val = ErrParse.val

\* the set a query's answer stands for
AnswerSet(r) ==
    CASE r.op \in {"list_tickers", "get_companies"} -> SeqToSet(r.val)
      [] r.op = "stock_by_name" -> Found(r.val)
      [] OTHER -> {r.val}

\* the answer of the query r.op(r.arg) on Market m, its entries visited in order ord
Replay(m, r, ord) ==
    CASE r.op = "market_name" -> market_name(m)
      [] r.op = "open_time" -> open_time(m)
      [] r.op = "close_time" -> close_time(m)
      [] r.op = "currency" -> currency(m)
      [] r.op = "list_tickers" -> list_tickers(m, ord)
      [] r.op = "get_companies" -> get_companies(m, ord)
      [] r.op = "stock_by_name" -> stock_by_name(m, r.arg, ord)
      [] r.op = "stock_by_ticker" -> stock_by_ticker(m, r.arg)

\* C7: once a Market is constructed no step changes it (its metadata, its
\* constituents, any field of a Company), and the answer a query gives is, as
\* a set, the one the same query gives on the Market as it was constructed,
\* in whatever order the entries are visited.
C7_ReadOnly ==
    [][market # None =>
          /\ market' = market
          /\ result'.op # "none" =>
                \A ord \in IterOrders(market[1].company_map) :
                    AnswerSet(result') = AnswerSet([result' EXCEPT !.val = Replay(market[1], result', ord)])]_vars

\* get_companies answered on a Market of two Companies built by the caller
C7_Witness ==
    /\ pc = "built"
    /\ result.op = "get_companies"
    /\ Len(result.val) = 2

\* C8: each accessor of a constructed Company returns the value given to
\* IbexCompany::new; extra_id() is absent when no identifier was given and is
\* the given value otherwise.
C8_Accessors ==
    /\ result.op = "name" => result.val = args.sname
    /\ result.op = "full_name" => result.val = args.fname
    /\ result.op = "ticker" => result.val = args.ticker
    /\ result.op = "isin" => result.val = args.isin
    /\ result.op = "extra_id" =>
          /\ args.nif = None => result.val = None
          /\ args.nif # None => result.val = Some(args.nif[1])

\* extra_id() was read from a Company constructed without an extra identifier
C8_Witness ==
    /\ company # None
    /\ args.nif = None
    /\ args.fname # None
    /\ result.op = "extra_id"

\* the ticker value of section i of table t
TickerOf(t, i) == t[i].fields.ticker[2]

\* the last section of t that carries ticker tk
LastWith(t, tk) ==
    CHOOSE i \in 1..Len(t) : TickerOf(t, i) = tk /\ \A j \in (i + 1)..Len(t) : TickerOf(t, j) # tk

\* some key the loader reads is missing from the section or is no string
LacksReadKey(section) ==
    \E k \in {"full_name", "ticker", "isin", "extra_id"} :
        k \notin DOMAIN section.fields \/ section.fields[k][1] # "str"

\* C9: after a successful load the registry holds one entry per distinct
\* ticker of the sections, so N sections of pairwise distinct tickers give
\* list_tickers().len() = N; a repeated ticker is no error (the load fails
\* only on a section that lacks a key it reads), and the entry kept is the
\* Company of the last section of that ticker.
C9_OneEntryPerTicker ==
    /\ pc = "panicked" => LacksReadKey(table[1][idx + 1])
    /\ pc = "failed" => table = None
    /\ pc = "loaded" =>
          LET t == table[1]
              m == market[1]
              tickers == {TickerOf(t, i) : i \in 1..Len(t)}
          IN  /\ ret.tag = "Ok"
              /\ ret.val = m
              /\ DOMAIN m.company_map = tickers
              /\ result.op = "list_tickers" =>
                    /\ Len(result.val) = Cardinality(tickers)
                    /\ Cardinality(tickers) = Len(t) => Len(result.val) = Len(t)
              /\ \A tk \in tickers :
                    LET section == t[LastWith(t, tk)]
                        c == m.company_map[tk]
                    IN  /\ ticker(c) = tk
                        /\ isin(c) = section.fields.isin[2]
                        /\ full_name(c) = Some(section.fields.full_name[2])
                        /\ extra_id(c) = Some(section.fields.extra_id[2])

\* list_tickers answered after the load of two sections of the same ticker
\* and different full names
C9_Witness ==
    /\ pc = "loaded"
    /\ Len(table[1]) = 2
    /\ TickerOf(table[1], 1) = TickerOf(table[1], 2)
    /\ table[1][1].fields.full_name # table[1][2].fields.full_name
    /\ result.op = "list_tickers"
    /\ Len(result.val) = 1

C11_KeyIsInnerTicker ==
    pc = "loaded" =>
        LET t == table[1]
            m == market[1]
            tickers == {TickerOf(t, i) : i \in 1..Len(t)}
            keys == {t[i].key : i \in 1..Len(t)}
        IN  /\ \A k \in DOMAIN m.company_map : ticker(m.company_map[k]) = k
            /\ result.op = "stock_by_ticker" =>
                  /\ result.arg \in tickers =>
                        /\ result.val # None
                        /\ ticker(result.val[1]) = result.arg
                        /\ full_name(result.val[1]) =
                              Some(t[LastWith(t, result.arg)].fields.full_name[2])
                  /\ (result.arg \in keys /\ result.arg \notin tickers) => result.val = None

\* stock_by_ticker reported not-found for the key of a section whose ticker
\* value is another string, in a loaded Market that holds that section's Company
C11_Witness ==
    /\ pc = "loaded"
    /\ Len(table[1]) = 1
    /\ table[1][1].key # TickerOf(table[1], 1)
    /\ DOMAIN market[1].company_map = {TickerOf(table[1], 1)}
    /\ result.op = "stock_by_ticker"
    /\ result.arg = table[1][1].key
    /\ result.val = None

====
